---- MODULE Spec2Model ----
(***************************************************************************)
(* Model of objdiff's project configuration subsystem                      *)
(* (objdiff-core/src/config/mod.rs): path resolution of a ProjectObject,   *)
(* decoding of a ProjectConfig with its serde defaults, discovery of the   *)
(* configuration file, and the build invoker run_make / run_make_cmd.      *)
(*                                                                         *)
(* Four specifications share the variables below; each one drives one      *)
(* part of the subsystem and leaves the other variables at rest:           *)
(*   SpecResolve   ProjectObject::resolve_paths                            *)
(*   SpecParse     read_yml_config / read_json_config                      *)
(*   SpecDiscover  try_project_config                                      *)
(*   SpecBuild     BuildConfig::from_config, run_make, run_make_cmd        *)
(***************************************************************************)
EXTENDS Integers, Sequences, FiniteSets, TLC

VARIABLES
    obj,        \* the ProjectObject being resolved (mutated in place)
    declared,   \* the object as it was declared, before resolve_paths
    rargs,      \* the arguments of resolve_paths
    rpc,        \* "loaded" before resolve_paths ran, "resolved" after
    doc,        \* the bytes handed to a reader, as the fields they spell
    parsed,     \* None before a reader ran, then Some(Result<ProjectConfig>)
    dir,        \* the project directory: one entry per candidate filename
    found,      \* None before try_project_config ran, then Some(its result)
    platform,   \* the build's cfg: "windows" or "unix"
    appConfig,  \* the live AppConfig
    inv,        \* the run_make invocations, one record per caller
    procs       \* the child process each invocation spawned, if any

vars == <<obj, declared, rargs, rpc, doc, parsed, dir, found,
          platform, appConfig, inv, procs>>

resolveVars == <<obj, declared, rargs, rpc>>
parseVars == <<doc, parsed>>
discoverVars == <<dir, found>>
buildVars == <<platform, appConfig, inv, procs>>

(***************************************************************************)
(* Option<T>                                                               *)
(***************************************************************************)
None == [some |-> FALSE]

Some(x) == [some |-> TRUE, val |-> x]

IsSome(o) == o.some

IsNone(o) == ~o.some

Opt(S) == {None} \cup {Some(x) : x \in S}

(***************************************************************************)
(* Paths of the resolver: absolute or relative, a sequence of components.  *)
(* Path::join replaces the base when the joined path is absolute and       *)
(* appends its components otherwise.                                       *)
(***************************************************************************)
Path(a, c) == [abs |-> a, comps |-> c]

Join(base, p) ==
    IF p.abs THEN p ELSE Path(base.abs, base.comps \o p.comps)

ProjectDirs == {Path(TRUE, <<"proj">>)}

ObjDirs == {Path(TRUE, <<"proj", "build">>), Path(FALSE, <<"out">>)}

DeclaredPaths == {Path(FALSE, <<"a.o">>), Path(FALSE, <<"sub", "b.o">>)}

OverridePaths == {Path(FALSE, <<"t.o">>), Path(TRUE, <<"abs", "t.o">>)}

ProjectObjects ==
    [path : Opt(DeclaredPaths),
     target_path : Opt(OverridePaths),
     base_path : Opt(OverridePaths)]

(***************************************************************************)
(* ProjectObject::resolve_paths, one side: the value the side's path has   *)
(* after the call, from the side's output directory, the declared path     *)
(* and the side's path before the call.                                    *)
(***************************************************************************)
ResolveSideDirFirst(project_dir, side_obj_dir, path, side_path) ==
    IF IsSome(side_obj_dir) /\ IsSome(path)
    THEN Some(Join(side_obj_dir.val, path.val))
    ELSE IF IsSome(side_path)
         THEN Some(Join(project_dir, side_path.val))
         ELSE side_path

ResolveSideNoOverride(project_dir, side_obj_dir, path, side_path) ==
    IF IsSome(side_obj_dir) /\ IsSome(path) /\ IsNone(side_path)
    THEN Some(Join(side_obj_dir.val, path.val))
    ELSE side_path

ResolveSide(project_dir, side_obj_dir, path, side_path) ==
    IF IsSome(side_obj_dir) /\ IsSome(path) /\ IsNone(side_path)
    THEN Some(Join(side_obj_dir.val, path.val))
    ELSE IF IsSome(side_path)
         THEN Some(Join(project_dir, side_path.val))
         ELSE side_path

InitResolve ==
    /\ declared \in ProjectObjects
    /\ obj = declared
    /\ rargs \in [project_dir : ProjectDirs,
                  target_obj_dir : Opt(ObjDirs),
                  base_obj_dir : Opt(ObjDirs)]
    /\ rpc = "loaded"

resolve_paths ==
    /\ rpc = "loaded"
    /\ obj' = [obj EXCEPT
                 !.target_path = ResolveSide(rargs.project_dir, rargs.target_obj_dir,
                                             obj.path, obj.target_path),
                 !.base_path = ResolveSide(rargs.project_dir, rargs.base_obj_dir,
                                           obj.path, obj.base_path)]
    /\ rpc' = "resolved"
    /\ UNCHANGED <<declared, rargs>>

(***************************************************************************)
(* Decoding a configuration file.  A document is the bytes of a file, held *)
(* as what they spell: whether each decoder accepts them, and, when one    *)
(* does, the keys present (Some) or missing (None) in the top-level map.   *)
(* The key "objects" stands for itself and its alias "units".              *)
(***************************************************************************)
Ok(x) == [ok |-> TRUE, val |-> x]

Err(e) == [ok |-> FALSE, err |-> e]

DEFAULT_WATCH_PATTERNS ==
    << "*.c", "*.cp", "*.cpp", "*.cxx", "*.h", "*.hp", "*.hpp", "*.hxx", "*.s", "*.S",
       "*.asm", "*.inc", "*.py", "*.yml", "*.txt", "*.json" >>

DocObjectLists ==
    {<<>>, <<[path |-> Some(Path(FALSE, <<"a.o">>)), target_path |-> None,
              base_path |-> None]>>}

DocFields ==
    [min_version : Opt({"1.0.0"}),
     custom_make : Opt({"ninja"}),
     target_dir : Opt({Path(FALSE, <<"build">>)}),
     base_dir : Opt({Path(FALSE, <<"out">>)}),
     build_base : Opt(BOOLEAN),
     build_target : Opt(BOOLEAN),
     watch_patterns : Opt({<<>>, <<"*.c", "*.h">>}),
     objects : Opt(DocObjectLists)]

Docs == [okYml : BOOLEAN, okJson : BOOLEAN, fields : DocFields]

bool_true == TRUE

\* #[serde(default)] and #[serde(default = "f")] on a field of type T: the
\* decoded value when the key is present, the default otherwise.
OrDefault(field, dflt) == IF IsSome(field) THEN field.val ELSE dflt

ProjectConfigFlagsSwapped(fields) ==
    [min_version |-> fields.min_version,
     custom_make |-> fields.custom_make,
     target_dir |-> fields.target_dir,
     base_dir |-> fields.base_dir,
     build_base |-> OrDefault(fields.build_base, FALSE),
     build_target |-> OrDefault(fields.build_target, bool_true),
     watch_patterns |-> fields.watch_patterns,
     objects |-> OrDefault(fields.objects, <<>>)]

ProjectConfigWatchDefaulted(fields) ==
    [min_version |-> fields.min_version,
     custom_make |-> fields.custom_make,
     target_dir |-> fields.target_dir,
     base_dir |-> fields.base_dir,
     build_base |-> OrDefault(fields.build_base, bool_true),
     build_target |-> OrDefault(fields.build_target, FALSE),
     watch_patterns |-> Some(OrDefault(fields.watch_patterns, DEFAULT_WATCH_PATTERNS)),
     objects |-> OrDefault(fields.objects, <<>>)]

\* The derived Deserialize of ProjectConfig: Option fields keep None when
\* their key is missing, the two flags and the object list take defaults.
ProjectConfigOf(fields) ==
    [min_version |-> fields.min_version,
     custom_make |-> fields.custom_make,
     target_dir |-> fields.target_dir,
     base_dir |-> fields.base_dir,
     build_base |-> OrDefault(fields.build_base, bool_true),
     build_target |-> OrDefault(fields.build_target, FALSE),
     watch_patterns |-> fields.watch_patterns,
     objects |-> OrDefault(fields.objects, <<>>)]

read_yml_config(d) ==
    IF d.okYml THEN Ok(ProjectConfigOf(d.fields)) ELSE Err("yaml decode error")

read_json_config(d) ==
    IF d.okJson THEN Ok(ProjectConfigOf(d.fields)) ELSE Err("json decode error")

InitParse ==
    /\ doc \in Docs
    /\ parsed = None

ReadYml ==
    /\ IsNone(parsed)
    /\ parsed' = Some([reader |-> "yml", result |-> read_yml_config(doc)])
    /\ UNCHANGED doc

ReadJson ==
    /\ IsNone(parsed)
    /\ parsed' = Some([reader |-> "json", result |-> read_json_config(doc)])
    /\ UNCHANGED doc

(***************************************************************************)
(* Discovery.  Each candidate filename has one entry in the directory:     *)
(*   "absent"  File::open fails (no such file, or it cannot be opened)     *)
(*   "nometa"  the file opens and File::metadata fails                     *)
(*   "dir"     the file opens and is no regular file                       *)
(*   "file"    a regular file with a content and a modification time       *)
(***************************************************************************)
CONFIG_FILENAMES == << "objdiff.yml", "objdiff.yaml", "objdiff.json" >>

\* filename.contains("json")
ContainsJson(filename) == filename \in {"objdiff.json"}

NoFields ==
    [min_version |-> None, custom_make |-> None, target_dir |-> None,
     base_dir |-> None, build_base |-> None, build_target |-> None,
     watch_patterns |-> None, objects |-> None]

YmlDoc == [okYml |-> TRUE, okJson |-> FALSE, fields |-> NoFields]

JsonDoc == [okYml |-> TRUE, okJson |-> TRUE, fields |-> NoFields]

BrokenDoc == [okYml |-> FALSE, okJson |-> FALSE, fields |-> NoFields]

Mtimes == {10, 20}

DirEntries ==
    {[kind |-> k, content |-> BrokenDoc, mtime |-> 10] : k \in {"absent", "nometa", "dir"}}
    \cup [kind : {"file"}, content : {YmlDoc, JsonDoc, BrokenDoc}, mtime : Mtimes]

ProjectDir == Path(TRUE, <<"proj">>)

ConfigPath(i) == Join(ProjectDir, Path(FALSE, <<CONFIG_FILENAMES[i]>>))

ReadConfig(i, content) ==
    IF ContainsJson(CONFIG_FILENAMES[i])
    THEN read_json_config(content)
    ELSE read_yml_config(content)

RECURSIVE ScanFallThrough(_, _)
ScanFallThrough(d, i) ==
    IF i > Len(CONFIG_FILENAMES) THEN None
    ELSE IF d[i].kind # "file" THEN ScanFallThrough(d, i + 1)
    ELSE IF ~ReadConfig(i, d[i].content).ok /\ i < Len(CONFIG_FILENAMES)
         THEN ScanFallThrough(d, i + 1)
         ELSE Some([config |-> ReadConfig(i, d[i].content),
                    info |-> [path |-> ConfigPath(i), timestamp |-> d[i].mtime]])

\* The loop of try_project_config from candidate i on.
RECURSIVE Scan(_, _)
Scan(d, i) ==
    IF i > Len(CONFIG_FILENAMES) THEN None
    ELSE IF d[i].kind = "absent" THEN Scan(d, i + 1)
    ELSE IF d[i].kind = "nometa" THEN Scan(d, i + 1)
    ELSE IF d[i].kind # "file" THEN Scan(d, i + 1)
    ELSE Some([config |-> ReadConfig(i, d[i].content),
               info |-> [path |-> ConfigPath(i), timestamp |-> d[i].mtime]])

InitDiscover ==
    /\ dir \in [1..Len(CONFIG_FILENAMES) -> DirEntries]
    /\ found = None

try_project_config ==
    /\ IsNone(found)
    /\ found' = Some(Scan(dir, 1))
    /\ UNCHANGED dir

(***************************************************************************)
(* The build invoker.  Text (a String, an OsStr, the bytes of a stream) is *)
(* a sequence of tokens; each token is a run of ordinary characters or one *)
(* of the characters the conversions below single out.                     *)
(***************************************************************************)
Backslash == "\\"

Slash == "/"

Space == " "

BadUnit == "<not unicode>"      \* an ill-formed code unit of an OsStr

Replacement == "<U+FFFD>"       \* what the lossy conversions put in its place

Platforms == {"unix", "windows"}

IsWindows(p) == p = "windows"

\* OsStr::to_string_lossy
ToStringLossy(t) ==
    [k \in 1..Len(t) |-> IF t[k] = BadUnit THEN Replacement ELSE t[k]]

\* path_slash::PathExt::to_slash_lossy, as compiled for Windows
ToSlashLossy(t) ==
    [k \in 1..Len(t) |-> IF t[k] = Backslash THEN Slash
                         ELSE IF t[k] = BadUnit THEN Replacement ELSE t[k]]

RECURSIVE TrailingBackslashes(_)
TrailingBackslashes(t) ==
    IF Len(t) > 0 /\ t[Len(t)] = Backslash
    THEN <<Backslash>> \o TrailingBackslashes(SubSeq(t, 1, Len(t) - 1))
    ELSE <<>>

\* shell_escape::escape: on unix anything outside [A-Za-z0-9,._+:@%/-] has the
\* text wrapped in single quotes; on Windows a space has it wrapped in double
\* quotes, with the backslashes before the closing quote doubled.
ShellEscape(p, t) ==
    IF IsWindows(p)
    THEN IF t # <<>> /\ \A k \in 1..Len(t) : t[k] # Space
         THEN t
         ELSE <<"\"">> \o t \o TrailingBackslashes(t) \o <<"\"">>
    ELSE IF t # <<>> /\ \A k \in 1..Len(t) : t[k] \notin {Space, Backslash, Replacement}
         THEN t
         ELSE <<"'">> \o t \o <<"'">>

BuildConfigs ==
    [project_dir : Opt({<<"C:", Backslash, "proj">>}),
     custom_make : Opt({<<"ninja">>}),
     selected_wsl_distro : Opt({<<"Ubuntu">>})]

Args ==
    {<<"src", Slash, "a.o">>,
     <<"src", Backslash, "a.o">>,
     <<"my", Space, "dir", Backslash, BadUnit>>}

Streams ==
    {[valid |-> TRUE, text |-> <<"line 1", "\n", "line 2">>],
     [valid |-> FALSE, text |-> <<BadUnit>>]}

Outputs == [code : Opt({0, 1}), stdout : Streams, stderr : Streams]

\* std::str::from_utf8
from_utf8(bytes) ==
    IF bytes.valid THEN Ok(bytes.text) ELSE Err("invalid utf-8 sequence")

DefaultBuildStatus ==
    [success |-> FALSE, cmdline |-> <<>>, stdout |-> <<>>, stderr |-> <<>>]

from_config(config) ==
    [project_dir |-> config.project_dir,
     custom_make |-> config.custom_make,
     selected_wsl_distro |-> config.selected_wsl_distro]

\* The Command run_make_cmd builds: program, arguments, working directory
\* (None when current_dir is not called) and the creation flags.
CommandNativeArg(p, config, cwd, arg) ==
    LET make == IF IsSome(config.custom_make) THEN config.custom_make.val ELSE <<"make">>
    IN IF ~IsWindows(p)
       THEN [program |-> make, args |-> <<arg>>, cwd |-> Some(cwd), no_window |-> FALSE]
       ELSE IF IsSome(config.selected_wsl_distro)
            THEN [program |-> <<"wsl">>,
                  args |-> << <<"--cd">>, cwd, <<"-d">>, config.selected_wsl_distro.val,
                              <<"--">>, make, arg >>,
                  cwd |-> None, no_window |-> TRUE]
            ELSE [program |-> make, args |-> <<arg>>,
                  cwd |-> Some(cwd), no_window |-> TRUE]

Command(p, config, cwd, arg) ==
    LET make == IF IsSome(config.custom_make) THEN config.custom_make.val ELSE <<"make">>
    IN IF ~IsWindows(p)
       THEN [program |-> make, args |-> <<arg>>, cwd |-> Some(cwd), no_window |-> FALSE]
       ELSE IF IsSome(config.selected_wsl_distro)
            THEN [program |-> <<"wsl">>,
                  args |-> << <<"--cd">>, cwd, <<"-d">>, config.selected_wsl_distro.val,
                              <<"--">>, make, ToSlashLossy(arg) >>,
                  cwd |-> None, no_window |-> TRUE]
            ELSE [program |-> make, args |-> <<ToSlashLossy(arg)>>,
                  cwd |-> Some(cwd), no_window |-> TRUE]

RECURSIVE EscapedArgs(_, _)
EscapedArgs(p, args) ==
    IF args = <<>> THEN <<>>
    ELSE <<Space>> \o ShellEscape(p, ToStringLossy(Head(args))) \o EscapedArgs(p, Tail(args))

\* The reconstructed command line of a Command.
Cmdline(p, command) ==
    ShellEscape(p, ToStringLossy(command.program)) \o EscapedArgs(p, command.args)

\* output.status.code().unwrap_or(-1)
ExitCode(code) == IF IsSome(code) THEN code.val ELSE -1

\* run_make_cmd from the return of command.output() on.
ProcessOutputIgnoreCode(cmdline, output) ==
    LET stdout == from_utf8(output.stdout)
        stderr == from_utf8(output.stderr)
    IN IF ~stdout.ok THEN Err(<<"Failed to process stdout">>)
       ELSE IF ~stderr.ok THEN Err(<<"Failed to process stderr">>)
       ELSE Ok([success |-> TRUE, cmdline |-> cmdline,
                stdout |-> stdout.val, stderr |-> stderr.val])

ProcessOutput(cmdline, output) ==
    LET stdout == from_utf8(output.stdout)
        stderr == from_utf8(output.stderr)
    IN IF ~stdout.ok THEN Err(<<"Failed to process stdout">>)
       ELSE IF ~stderr.ok THEN Err(<<"Failed to process stderr">>)
       ELSE Ok([success |-> ExitCode(output.code) = 0, cmdline |-> cmdline,
                stdout |-> stdout.val, stderr |-> stderr.val])

\* run_make's early return.
MissingProjectDir ==
    [DefaultBuildStatus EXCEPT !.success = FALSE, !.stderr = <<"Missing project dir">>]

\* run_make's match on the Result of run_make_cmd.
RunMakeMatchPropagate(r) == r

RunMakeMatch(r) ==
    IF r.ok THEN r.val
    ELSE [DefaultBuildStatus EXCEPT !.success = FALSE, !.stderr = r.err]

Invocations == {"target", "base"}

Other(i) == CHOOSE j \in Invocations : j # i

\* An invocation before its caller started it.  pc is the caller's position:
\* "idle", "ready" (snapshot taken), "running" (blocked in command.output())
\* and "done" (run_make returned).  cmdline is run_make_cmd's local; overlapped
\* is a history flag, set when both children were running at the same time.
Idle ==
    [pc |-> "idle", config |-> None, arg |-> None, cmdline |-> <<>>,
     output |-> None, result |-> None, overlapped |-> FALSE]

\* The BuildConfig an invocation reads: the snapshot its caller passed.
LiveConfigOf(i) == from_config(appConfig)

ConfigOf(i) == inv[i].config.val

InitBuild ==
    /\ platform \in Platforms
    /\ appConfig \in BuildConfigs
    /\ inv = [i \in Invocations |-> Idle]
    /\ procs = [i \in Invocations |-> None]

\* The user edits the live configuration.
SetAppConfig ==
    /\ \E c \in BuildConfigs : c # appConfig /\ appConfig' = c
    /\ UNCHANGED <<platform, inv, procs>>

\* A caller takes its snapshot and picks the file to build.
TakeSnapshot(i) ==
    /\ inv[i].pc = "idle"
    /\ \E a \in Args :
         inv' = [inv EXCEPT ![i].pc = "ready",
                            ![i].config = Some(from_config(appConfig)),
                            ![i].arg = Some(a)]
    /\ UNCHANGED <<platform, appConfig, procs>>

RunMakeIgnoresMissingDir(i) ==
    /\ inv[i].pc = "ready"
    /\ IsNone(ConfigOf(i).project_dir)
    /\ LET command == Command(platform, ConfigOf(i), <<>>, inv[i].arg.val)
       IN /\ procs' = [procs EXCEPT ![i] = Some(command)]
          /\ inv' = [inv EXCEPT ![i].pc = "running",
                                ![i].cmdline = Cmdline(platform, command)]
    /\ UNCHANGED <<platform, appConfig>>

\* run_make with no project directory: returns at once.
RunMakeMissingDir(i) ==
    /\ inv[i].pc = "ready"
    /\ IsNone(ConfigOf(i).project_dir)
    /\ inv' = [inv EXCEPT ![i].pc = "done", ![i].result = Some(MissingProjectDir)]
    /\ UNCHANGED <<platform, appConfig, procs>>

\* run_make down to command.output(), which spawns the child and blocks.
RunMakeSpawn(i) ==
    /\ inv[i].pc = "ready"
    /\ IsSome(ConfigOf(i).project_dir)
    /\ LET command == Command(platform, ConfigOf(i), ConfigOf(i).project_dir.val,
                              inv[i].arg.val)
           both == inv[Other(i)].pc = "running"
       IN /\ procs' = [procs EXCEPT ![i] = Some(command)]
          /\ inv' = [inv EXCEPT ![i].pc = "running",
                                ![i].cmdline = Cmdline(platform, command),
                                ![i].overlapped = both,
                                ![Other(i)].overlapped = @ \/ both]
    /\ UNCHANGED <<platform, appConfig>>

\* run_make when command.output() fails to start the child.
RunMakeSpawnFails(i) ==
    /\ inv[i].pc = "ready"
    /\ IsSome(ConfigOf(i).project_dir)
    /\ inv' = [inv EXCEPT ![i].pc = "done",
                          ![i].result =
                              Some(RunMakeMatch(Err(<<"Failed to execute build">>)))]
    /\ UNCHANGED <<platform, appConfig, procs>>

\* The child ends, command.output() returns and run_make returns.
RunMakeReturn(i) ==
    /\ inv[i].pc = "running"
    /\ \E out \in Outputs :
         inv' = [inv EXCEPT ![i].pc = "done",
                            ![i].output = Some(out),
                            ![i].result =
                                Some(RunMakeMatch(ProcessOutput(inv[i].cmdline, out)))]
    /\ UNCHANGED <<platform, appConfig, procs>>

(***************************************************************************)
(* The specifications.                                                     *)
(***************************************************************************)
RestResolve ==
    /\ declared = CHOOSE o \in ProjectObjects : TRUE
    /\ obj = declared
    /\ rargs = [project_dir |-> ProjectDir, target_obj_dir |-> None, base_obj_dir |-> None]
    /\ rpc = "resolved"

RestParse == doc = BrokenDoc /\ parsed = None

RestDiscover ==
    /\ dir = [k \in 1..Len(CONFIG_FILENAMES) |->
                [kind |-> "absent", content |-> BrokenDoc, mtime |-> 10]]
    /\ found = None

RestBuild ==
    /\ platform = "unix"
    /\ appConfig = [project_dir |-> None, custom_make |-> None,
                    selected_wsl_distro |-> None]
    /\ inv = [i \in Invocations |-> Idle]
    /\ procs = [i \in Invocations |-> None]

InitSpecResolve == InitResolve /\ RestParse /\ RestDiscover /\ RestBuild

NextResolve == resolve_paths /\ UNCHANGED <<parseVars, discoverVars, buildVars>>

SpecResolve == InitSpecResolve /\ [][NextResolve]_vars

InitSpecParse == RestResolve /\ InitParse /\ RestDiscover /\ RestBuild

ParseYml == ReadYml /\ UNCHANGED <<resolveVars, discoverVars, buildVars>>

ParseJson == ReadJson /\ UNCHANGED <<resolveVars, discoverVars, buildVars>>

NextParse == ParseYml \/ ParseJson

SpecParse == InitSpecParse /\ [][NextParse]_vars

InitSpecDiscover == RestResolve /\ RestParse /\ InitDiscover /\ RestBuild

NextDiscover == try_project_config /\ UNCHANGED <<resolveVars, parseVars, buildVars>>

SpecDiscover == InitSpecDiscover /\ [][NextDiscover]_vars

InitSpecBuild == RestResolve /\ RestParse /\ RestDiscover /\ InitBuild

EditConfig == SetAppConfig /\ UNCHANGED <<resolveVars, parseVars, discoverVars>>

Snapshot ==
    /\ \E i \in Invocations : TakeSnapshot(i)
    /\ UNCHANGED <<resolveVars, parseVars, discoverVars>>

MissingDir ==
    /\ \E i \in Invocations : RunMakeMissingDir(i)
    /\ UNCHANGED <<resolveVars, parseVars, discoverVars>>

Spawn ==
    /\ \E i \in Invocations : RunMakeSpawn(i)
    /\ UNCHANGED <<resolveVars, parseVars, discoverVars>>

SpawnFails ==
    /\ \E i \in Invocations : RunMakeSpawnFails(i)
    /\ UNCHANGED <<resolveVars, parseVars, discoverVars>>

Return ==
    /\ \E i \in Invocations : RunMakeReturn(i)
    /\ UNCHANGED <<resolveVars, parseVars, discoverVars>>

NextBuild == EditConfig \/ Snapshot \/ MissingDir \/ Spawn \/ SpawnFails \/ Return

SpecBuild == InitSpecBuild /\ [][NextBuild]_vars

(***************************************************************************)
(* Properties of ProjectObject::resolve_paths (SpecResolve).               *)
(***************************************************************************)
Sides == {"target", "base"}

SideDir(side) == IF side = "target" THEN rargs.target_obj_dir ELSE rargs.base_obj_dir

SideOverride(side) == IF side = "target" THEN declared.target_path ELSE declared.base_path

SideResolved(side) == IF side = "target" THEN obj.target_path ELSE obj.base_path

\* C1, as claimed: with a side output directory, a declared path and an
\* override for the same side, the side resolves to side_obj_dir / declared_path.
C1_OutputDirWins ==
    rpc = "resolved" =>
        \A side \in Sides :
            (IsSome(SideDir(side)) /\ IsSome(declared.path) /\ IsSome(SideOverride(side)))
            => SideResolved(side) = Some(Join(SideDir(side).val, declared.path.val))

\* C1, amended: with a side output directory, a declared path and an override
\* for the same side, the override wins: the side resolves to
\* project_dir / override_path.
C1_OverrideWins ==
    rpc = "resolved" =>
        \A side \in Sides :
            (IsSome(SideDir(side)) /\ IsSome(declared.path) /\ IsSome(SideOverride(side)))
            => SideResolved(side) = Some(Join(rargs.project_dir, SideOverride(side).val))

C1_Witness ==
    /\ rpc = "resolved"
    /\ IsSome(rargs.target_obj_dir) /\ IsSome(declared.path) /\ IsSome(declared.target_path)
    /\ ~declared.target_path.val.abs
    /\ obj.target_path = Some(Join(rargs.project_dir, declared.target_path.val))
    /\ obj.target_path # Some(Join(rargs.target_obj_dir.val, declared.path.val))

\* C2: after one call each side is side_obj_dir / declared_path when the side's
\* directory and the declared path are given and no override is; otherwise
\* project_dir / override_path when an override is given; otherwise unresolved.
C2_ResolutionTable ==
    rpc = "resolved" =>
        \A side \in Sides :
            LET inferred == IsSome(SideDir(side)) /\ IsSome(declared.path)
                            /\ IsNone(SideOverride(side))
            IN /\ inferred =>
                    SideResolved(side) = Some(Join(SideDir(side).val, declared.path.val))
               /\ (~inferred /\ IsSome(SideOverride(side))) =>
                    SideResolved(side) = Some(Join(rargs.project_dir, SideOverride(side).val))
               /\ (~inferred /\ IsNone(SideOverride(side))) =>
                    SideResolved(side) = None

C2_Witness ==
    /\ rpc = "resolved"
    /\ IsSome(declared.path) /\ IsNone(rargs.target_obj_dir) /\ IsNone(declared.target_path)
    /\ obj.target_path = None
    /\ IsSome(rargs.base_obj_dir) /\ IsNone(declared.base_path)
    /\ obj.base_path = Some(Join(rargs.base_obj_dir.val, declared.path.val))

(***************************************************************************)
(* Properties of the decoded ProjectConfig (SpecParse).                    *)
(***************************************************************************)
Decoded == IsSome(parsed) /\ parsed.val.result.ok

\* C3, as claimed: a file that omits both build flags decodes to
\* build_target = true and build_base = false.
C3_TargetTrueBaseFalse ==
    (Decoded /\ IsNone(doc.fields.build_target) /\ IsNone(doc.fields.build_base))
    => (parsed.val.result.val.build_target = TRUE
        /\ parsed.val.result.val.build_base = FALSE)

\* C3, amended: a file that omits both build flags decodes to
\* build_target = false and build_base = true.
C3_TargetFalseBaseTrue ==
    (Decoded /\ IsNone(doc.fields.build_target) /\ IsNone(doc.fields.build_base))
    => (parsed.val.result.val.build_target = FALSE
        /\ parsed.val.result.val.build_base = TRUE)

C3_Witness ==
    /\ Decoded
    /\ IsNone(doc.fields.build_target) /\ IsNone(doc.fields.build_base)
    /\ parsed.val.result.val.build_base

\* C4, as claimed: a file with no watch_patterns decodes to a ProjectConfig
\* whose watch_patterns is present and is the default list.
C4_DefaultAtParseTime ==
    (Decoded /\ IsNone(doc.fields.watch_patterns))
    => (IsSome(parsed.val.result.val.watch_patterns)
        /\ parsed.val.result.val.watch_patterns.val = DEFAULT_WATCH_PATTERNS)

\* C4, amended: a file with no watch_patterns decodes to a ProjectConfig whose
\* watch_patterns is None; the decoder does not apply DEFAULT_WATCH_PATTERNS,
\* and a file that gives a list decodes to Some of that list.
C4_AbsentStaysNone ==
    Decoded =>
        /\ IsNone(doc.fields.watch_patterns)
               => parsed.val.result.val.watch_patterns = None
        /\ IsSome(doc.fields.watch_patterns)
               => parsed.val.result.val.watch_patterns = doc.fields.watch_patterns

C4_Witness ==
    /\ Decoded
    /\ IsNone(doc.fields.watch_patterns)
    /\ parsed.val.result.val.watch_patterns = None

(***************************************************************************)
(* Properties of try_project_config (SpecDiscover).                        *)
(***************************************************************************)
Regular(k) == dir[k].kind = "file"

FirstRegular ==
    CHOOSE k \in 1..Len(CONFIG_FILENAMES) : Regular(k) /\ \A j \in 1..(k - 1) : ~Regular(j)

\* Whether the content decodes under the format the candidate's name implies.
Decodes(k) ==
    IF CONFIG_FILENAMES[k] = "objdiff.json"
    THEN dir[k].content.okJson
    ELSE dir[k].content.okYml

Started(i) == inv[i].pc # "idle"

Done(i) == inv[i].pc = "done"

Result(i) == inv[i].result.val

BuildStatusFields == {"success", "cmdline", "stdout", "stderr"}

\* The child of invocation i ended and command.output() returned its output.
ChildCompleted(i) == Done(i) /\ IsSome(inv[i].output)

\* C5: an invocation whose BuildConfig has no project_dir never spawns a
\* process and returns success = false, an empty cmdline, an empty stdout and
\* stderr = "Missing project dir", whatever custom_make, the distro and the
\* argument are.
C5_MissingProjectDir ==
    \A i \in Invocations :
        (Started(i) /\ IsNone(inv[i].config.val.project_dir)) =>
            /\ inv[i].pc \in {"ready", "done"}
            /\ procs[i] = None
            /\ Done(i) =>
                 /\ Result(i).success = FALSE
                 /\ Result(i).cmdline = <<>>
                 /\ Result(i).stdout = <<>>
                 /\ Result(i).stderr = <<"Missing project dir">>

C5_Witness ==
    \E i \in Invocations :
        /\ Done(i)
        /\ IsNone(inv[i].config.val.project_dir)
        /\ IsSome(inv[i].config.val.custom_make)
        /\ IsSome(inv[i].config.val.selected_wsl_distro)
        /\ Result(i).stderr = <<"Missing project dir">>
        /\ procs[i] = None

\* C6: every return of run_make is a BuildStatus value; when the child could
\* not be started, or its stdout or its stderr is not valid text, that value
\* has success = false and the error's description in stderr.
C6_ErrorsBecomeStatus ==
    \A i \in Invocations :
        Done(i) =>
            /\ DOMAIN Result(i) = BuildStatusFields
            /\ (IsSome(inv[i].config.val.project_dir) /\ procs[i] = None) =>
                 (Result(i).success = FALSE
                  /\ Result(i).stderr = <<"Failed to execute build">>)
            /\ (ChildCompleted(i) /\ ~inv[i].output.val.stdout.valid) =>
                 (Result(i).success = FALSE
                  /\ Result(i).stderr = <<"Failed to process stdout">>)
            /\ (ChildCompleted(i) /\ inv[i].output.val.stdout.valid
                  /\ ~inv[i].output.val.stderr.valid) =>
                 (Result(i).success = FALSE
                  /\ Result(i).stderr = <<"Failed to process stderr">>)

C6_Witness ==
    \E i \in Invocations :
        /\ ChildCompleted(i)
        /\ inv[i].output.val.code = Some(0)
        /\ inv[i].output.val.stdout.valid
        /\ ~inv[i].output.val.stderr.valid
        /\ Result(i).success = FALSE
        /\ Result(i).stderr = <<"Failed to process stderr">>

\* C7, as claimed: whenever the child completes, success holds exactly when
\* the exit code is zero, and stdout and stderr are what the child emitted.
C7_EveryCompletedChild ==
    \A i \in Invocations :
        ChildCompleted(i) =>
            /\ Result(i).success = (inv[i].output.val.code = Some(0))
            /\ Result(i).stdout = inv[i].output.val.stdout.text
            /\ Result(i).stderr = inv[i].output.val.stderr.text

\* C7, amended: whenever the child completes and both of its streams are valid
\* UTF-8, success holds exactly when the exit code is zero (a missing exit code
\* is a failure), and stdout and stderr are what the child emitted.
C7_ValidStreams ==
    \A i \in Invocations :
        (ChildCompleted(i) /\ inv[i].output.val.stdout.valid
           /\ inv[i].output.val.stderr.valid) =>
            /\ Result(i).success = (inv[i].output.val.code = Some(0))
            /\ Result(i).stdout = inv[i].output.val.stdout.text
            /\ Result(i).stderr = inv[i].output.val.stderr.text

C7_Witness ==
    \E i \in Invocations :
        /\ ChildCompleted(i)
        /\ inv[i].output.val.stdout.valid /\ inv[i].output.val.stderr.valid
        /\ inv[i].output.val.code = None
        /\ Result(i).success = FALSE
        /\ Result(i).stdout = inv[i].output.val.stdout.text
        /\ Result(i).stdout # <<>>

\* sub occurs in t as a run of consecutive tokens
Includes(t, sub) ==
    \E k \in 0..(Len(t) - Len(sub)) : SubSeq(t, k + 1, k + Len(sub)) = sub

EndsWith(t, sub) ==
    Len(t) >= Len(sub) /\ SubSeq(t, Len(t) - Len(sub) + 1, Len(t)) = sub

\* Invocation i went through the wsl launcher on Windows.
ViaWsl(i) ==
    /\ IsWindows(platform)
    /\ IsSome(procs[i])
    /\ IsSome(inv[i].config.val.selected_wsl_distro)

LastArg(i) == procs[i].val.args[Len(procs[i].val.args)]

DistroFlag(i) ==
    <<Space, "-d", Space>> \o ShellEscape(platform, inv[i].config.val.selected_wsl_distro.val)

ShownTarget(i) == <<Space>> \o ShellEscape(platform, ToSlashLossy(inv[i].arg.val))

\* C9, as claimed: through wsl the cmdline shows -d <distro> and the
\* slash-normalized target, and the process is given the target in native form.
C9_NativeArgPassed ==
    \A i \in Invocations :
        ViaWsl(i) =>
            /\ Includes(inv[i].cmdline, DistroFlag(i))
            /\ EndsWith(inv[i].cmdline, ShownTarget(i))
            /\ LastArg(i) = inv[i].arg.val

\* C9, amended: through wsl the cmdline shows -d <distro> and the
\* slash-normalized target, and the process is given that same slash-normalized
\* target, not the native form: the cmdline is built from the arguments passed.
C9_SlashArgPassed ==
    \A i \in Invocations :
        ViaWsl(i) =>
            /\ Includes(inv[i].cmdline, DistroFlag(i))
            /\ EndsWith(inv[i].cmdline, ShownTarget(i))
            /\ LastArg(i) = ToSlashLossy(inv[i].arg.val)
            /\ procs[i].val.program = <<"wsl">>

C9_Witness ==
    \E i \in Invocations :
        /\ ViaWsl(i)
        /\ inv[i].arg.val = <<"src", Backslash, "a.o">>
        /\ LastArg(i) = <<"src", Slash, "a.o">>
        /\ EndsWith(inv[i].cmdline, <<Space, "src", Slash, "a.o">>)

\* What run_make returns when it runs alone with the snapshot, the argument
\* and the child outcome of invocation i.
Alone(i) ==
    LET config == inv[i].config.val
    IN IF IsNone(config.project_dir) THEN MissingProjectDir
       ELSE IF IsNone(procs[i]) THEN RunMakeMatch(Err(<<"Failed to execute build">>))
       ELSE RunMakeMatch(ProcessOutput(
                Cmdline(platform, Command(platform, config, config.project_dir.val,
                                          inv[i].arg.val)),
                inv[i].output.val))

Isolated ==
    \A i \in Invocations :
        /\ IsSome(procs[i]) =>
             /\ IsSome(inv[i].config.val.project_dir)
             /\ procs[i].val = Command(platform, inv[i].config.val,
                                       inv[i].config.val.project_dir.val, inv[i].arg.val)
        /\ Done(i) => Result(i) = Alone(i)

SnapshotKept ==
    \A i \in Invocations :
        Started(i) => (inv'[i].config = inv[i].config /\ inv'[i].arg = inv[i].arg)

\* C10: under every interleaving of two invocations and of edits of the live
\* configuration, each invocation keeps the snapshot it started with, spawns
\* the child its own snapshot describes and returns what it would return alone.
C10_Independent == []Isolated /\ [][SnapshotKept]_vars

C10_Witness ==
    /\ \A i \in Invocations : ChildCompleted(i) /\ inv[i].overlapped
    /\ inv["target"].config # inv["base"].config
    /\ inv["target"].output # inv["base"].output
    /\ \A i \in Invocations : inv[i].config.val # from_config(appConfig)
    /\ \A i \in Invocations : Result(i) = Alone(i)

====
